---------------------------- MODULE Spec2Model ----------------------------
(***************************************************************************)
(* Model of the client-side pre-submission library:                        *)
(*   client/src/lib/client-encryption.ts  (SensitiveFieldCodec)            *)
(*   client/src/lib/signature-service.ts  (SignatureEvidenceRecorder)      *)
(*                                                                         *)
(* A JavaScript string is a sequence of UTF-16 code units (naturals in     *)
(* 0..65535).  An exception thrown by a platform primitive is the marker   *)
(* Throws; the JavaScript value undefined is the marker Undefined.         *)
(***************************************************************************)
EXTENDS Integers, Sequences, FiniteSets, TLC

(***************************************************************************)
(* Bounds of the model.                                                    *)
(***************************************************************************)
\* longest Unicode input handed to encodeForTransmission
MaxLen == 3
\* longest base64-like input handed to decodeFromTransmission
MaxB64Len == 4
\* longest raw SSN drawn from the small SSN alphabet
MaxSsnLen == 9

Throws == << -1 >>
Undefined == << -2 >>

\* all sequences over alphabet A of length 0..n
RECURSIVE Strs(_, _)
Strs(A, n) ==
  IF n = 0 THEN { <<>> }
  ELSE LET shorter == Strs(A, n - 1)
       IN  shorter \cup { Append(s, c) : s \in { t \in shorter : Len(t) = n - 1 }, c \in A }

(***************************************************************************)
(* Platform primitives used by client-encryption.ts                        *)
(***************************************************************************)
IsHighSurrogate(c) == c >= 55296 /\ c <= 56319
IsLowSurrogate(c) == c >= 56320 /\ c <= 57343

\* uriUnreserved of ECMAScript: A-Z a-z 0-9 - _ . ! ~ * ' ( )
IsUnreserved(c) ==
  \/ (c >= 65 /\ c <= 90)
  \/ (c >= 97 /\ c <= 122)
  \/ (c >= 48 /\ c <= 57)
  \/ c \in {45, 95, 46, 33, 126, 42, 39, 40, 41}

HexUpper(n) == IF n < 10 THEN 48 + n ELSE 55 + n
HexLower(n) == IF n < 10 THEN 48 + n ELSE 87 + n

IsHexDigit(c) ==
  (c >= 48 /\ c <= 57) \/ (c >= 65 /\ c <= 70) \/ (c >= 97 /\ c <= 102)

HexVal(c) ==
  IF c >= 48 /\ c <= 57 THEN c - 48
  ELSE IF c >= 65 /\ c <= 70 THEN c - 55
  ELSE c - 87

\* UTF-8 octets of the code point v
UTF8(v) ==
  IF v < 128 THEN << v >>
  ELSE IF v < 2048 THEN << 192 + (v \div 64), 128 + (v % 64) >>
  ELSE IF v < 65536 THEN
    << 224 + (v \div 4096), 128 + ((v \div 64) % 64), 128 + (v % 64) >>
  ELSE
    << 240 + (v \div 262144), 128 + ((v \div 4096) % 64),
       128 + ((v \div 64) % 64), 128 + (v % 64) >>

\* "%XX" for every octet, upper-case hexadecimal
RECURSIVE PercentEncode(_)
PercentEncode(octets) ==
  IF octets = <<>> THEN <<>>
  ELSE << 37, HexUpper(Head(octets) \div 16), HexUpper(Head(octets) % 16) >>
       \o PercentEncode(Tail(octets))

\* encodeURIComponent: the ECMAScript Encode operation from position k on;
\* throws URIError on a lone surrogate
RECURSIVE EncodeFrom(_, _)
EncodeFrom(s, k) ==
  IF k > Len(s) THEN <<>>
  ELSE IF IsUnreserved(s[k]) THEN
    LET rest == EncodeFrom(s, k + 1)
    IN  IF rest = Throws THEN Throws ELSE << s[k] >> \o rest
  ELSE IF IsLowSurrogate(s[k]) THEN Throws
  ELSE IF ~IsHighSurrogate(s[k]) THEN
    LET rest == EncodeFrom(s, k + 1)
    IN  IF rest = Throws THEN Throws ELSE PercentEncode(UTF8(s[k])) \o rest
  ELSE IF k + 1 > Len(s) THEN Throws
  ELSE IF ~IsLowSurrogate(s[k + 1]) THEN Throws
  ELSE
    LET v == (s[k] - 55296) * 1024 + (s[k + 1] - 56320) + 65536
        rest == EncodeFrom(s, k + 2)
    IN  IF rest = Throws THEN Throws ELSE PercentEncode(UTF8(v)) \o rest

encodeURIComponent(s) == EncodeFrom(s, 1)

\* the base64 alphabet
B64Char(i) ==
  IF i < 26 THEN 65 + i
  ELSE IF i < 52 THEN 97 + (i - 26)
  ELSE IF i < 62 THEN 48 + (i - 52)
  ELSE IF i = 62 THEN 43
  ELSE 47

IsB64Char(c) ==
  \/ (c >= 65 /\ c <= 90)
  \/ (c >= 97 /\ c <= 122)
  \/ (c >= 48 /\ c <= 57)
  \/ c = 43
  \/ c = 47

B64Val(c) ==
  IF c >= 65 /\ c <= 90 THEN c - 65
  ELSE IF c >= 97 /\ c <= 122 THEN c - 97 + 26
  ELSE IF c >= 48 /\ c <= 57 THEN c - 48 + 52
  ELSE IF c = 43 THEN 62
  ELSE 63

RECURSIVE B64EncodeBytes(_)
B64EncodeBytes(b) ==
  IF Len(b) = 0 THEN <<>>
  ELSE IF Len(b) = 1 THEN
    << B64Char(b[1] \div 4), B64Char((b[1] % 4) * 16), 61, 61 >>
  ELSE IF Len(b) = 2 THEN
    << B64Char(b[1] \div 4), B64Char((b[1] % 4) * 16 + (b[2] \div 16)),
       B64Char((b[2] % 16) * 4), 61 >>
  ELSE
    << B64Char(b[1] \div 4), B64Char((b[1] % 4) * 16 + (b[2] \div 16)),
       B64Char((b[2] % 16) * 4 + (b[3] \div 64)), B64Char(b[3] % 64) >>
    \o B64EncodeBytes(SubSeq(b, 4, Len(b)))

\* btoa: throws InvalidCharacterError on a code unit above 255
btoa(s) ==
  IF \E i \in 1..Len(s) : s[i] > 255 THEN Throws ELSE B64EncodeBytes(s)

IsAsciiWhitespace(c) == c \in {9, 10, 12, 13, 32}

RECURSIVE B64DecodeChars(_)
B64DecodeChars(d) ==
  IF Len(d) = 0 THEN <<>>
  ELSE IF Len(d) = 2 THEN
    << B64Val(d[1]) * 4 + (B64Val(d[2]) \div 16) >>
  ELSE IF Len(d) = 3 THEN
    << B64Val(d[1]) * 4 + (B64Val(d[2]) \div 16),
       (B64Val(d[2]) % 16) * 16 + (B64Val(d[3]) \div 4) >>
  ELSE
    << B64Val(d[1]) * 4 + (B64Val(d[2]) \div 16),
       (B64Val(d[2]) % 16) * 16 + (B64Val(d[3]) \div 4),
       (B64Val(d[3]) % 4) * 64 + B64Val(d[4]) >>
    \o B64DecodeChars(SubSeq(d, 5, Len(d)))

\* atob: the forgiving-base64 decode of the HTML standard; throws
\* InvalidCharacterError on malformed input
atob(s) ==
  LET noWs == SelectSeq(s, LAMBDA c : ~IsAsciiWhitespace(c))
      n == Len(noWs)
      unpadded ==
        IF n % 4 = 0 /\ n >= 2 /\ noWs[n] = 61 /\ noWs[n - 1] = 61
          THEN SubSeq(noWs, 1, n - 2)
        ELSE IF n % 4 = 0 /\ n >= 1 /\ noWs[n] = 61
          THEN SubSeq(noWs, 1, n - 1)
        ELSE noWs
  IN  IF Len(unpadded) % 4 = 1 THEN Throws
      ELSE IF \E i \in 1..Len(unpadded) : ~IsB64Char(unpadded[i]) THEN Throws
      ELSE B64DecodeChars(unpadded)

\* is position k of s a "%XX" escape
IsEscapeAt(s, k) ==
  /\ k + 2 <= Len(s)
  /\ s[k] = 37
  /\ IsHexDigit(s[k + 1])
  /\ IsHexDigit(s[k + 2])

EscapeByte(s, k) == HexVal(s[k + 1]) * 16 + HexVal(s[k + 2])

\* number of octets announced by the leading octet b (0 when b cannot lead)
Utf8SeqLen(b) ==
  IF b < 128 THEN 1
  ELSE IF b >= 192 /\ b <= 223 THEN 2
  ELSE IF b >= 224 /\ b <= 239 THEN 3
  ELSE IF b >= 240 /\ b <= 247 THEN 4
  ELSE 0

IsContinuation(b) == b >= 128 /\ b <= 191

\* code point of a multi-octet sequence, or -1 when it is not valid UTF-8
\* (bad continuation, overlong form, surrogate, above U+10FFFF)
Utf8CodePoint(o) ==
  IF \E i \in 2..Len(o) : ~IsContinuation(o[i]) THEN -1
  ELSE IF Len(o) = 2 THEN
    LET v == (o[1] - 192) * 64 + (o[2] - 128)
    IN  IF v < 128 THEN -1 ELSE v
  ELSE IF Len(o) = 3 THEN
    LET v == (o[1] - 224) * 4096 + (o[2] - 128) * 64 + (o[3] - 128)
    IN  IF v < 2048 \/ (v >= 55296 /\ v <= 57343) THEN -1 ELSE v
  ELSE
    LET v == (o[1] - 240) * 262144 + (o[2] - 128) * 4096
             + (o[3] - 128) * 64 + (o[4] - 128)
    IN  IF v < 65536 \/ v > 1114111 THEN -1 ELSE v

\* UTF-16 code units of the code point v
UTF16(v) ==
  IF v < 65536 THEN << v >>
  ELSE << 55296 + ((v - 65536) \div 1024), 56320 + ((v - 65536) % 1024) >>

\* decodeURIComponent: the ECMAScript Decode operation from position k on;
\* throws URIError on a malformed escape or on octets that are not UTF-8
RECURSIVE DecodeFrom(_, _)
DecodeFrom(s, k) ==
  IF k > Len(s) THEN <<>>
  ELSE IF s[k] # 37 THEN
    LET rest == DecodeFrom(s, k + 1)
    IN  IF rest = Throws THEN Throws ELSE << s[k] >> \o rest
  ELSE IF ~IsEscapeAt(s, k) THEN Throws
  ELSE
    LET b == EscapeByte(s, k)
        n == Utf8SeqLen(b)
    IN  IF n = 0 THEN Throws
        ELSE IF n = 1 THEN
          LET rest == DecodeFrom(s, k + 3)
          IN  IF rest = Throws THEN Throws ELSE << b >> \o rest
        ELSE IF k + 3 * n - 1 > Len(s) THEN Throws
        ELSE IF \E j \in 1..(n - 1) : ~IsEscapeAt(s, k + 3 * j) THEN Throws
        ELSE
          LET octets == [j \in 1..n |-> EscapeByte(s, k + 3 * (j - 1))]
              v == Utf8CodePoint(octets)
              rest == DecodeFrom(s, k + 3 * n)
          IN  IF v = -1 THEN Throws
              ELSE IF rest = Throws THEN Throws
              ELSE UTF16(v) \o rest

decodeURIComponent(s) == DecodeFrom(s, 1)

(***************************************************************************)
(* client-encryption.ts                                                    *)
(***************************************************************************)
EncodeFailedMsg == "[CLIENT_ENCRYPTION] Failed to encode data for transmission"
DecodeFailedMsg == "[CLIENT_ENCRYPTION] Failed to decode data"

\* btoa(encodeURIComponent(data)): the body of the try block of
\* encodeForTransmission
EncodeTransform(data) ==
  LET u == encodeURIComponent(data)
  IN  IF u = Throws THEN Throws ELSE btoa(u)

\* decodeURIComponent(atob(encoded)): the body of the try block of
\* decodeFromTransmission
DecodeTransform(encoded) ==
  LET a == atob(encoded)
  IN  IF a = Throws THEN Throws ELSE decodeURIComponent(a)

\* mutant: the catch block swallows the failure and returns ''
EncodeCatchReturnsEmpty(d) ==
  IF d = <<>> THEN [ret |-> <<>>, logged |-> <<>>, raised |-> FALSE]
  ELSE LET r == EncodeTransform(d)
       IN  IF r = Throws
             THEN [ret |-> <<>>, logged |-> << EncodeFailedMsg >>, raised |-> FALSE]
             ELSE [ret |-> r, logged |-> <<>>, raised |-> FALSE]

\* mutant: btoa applied to the raw string, without encodeURIComponent
EncodeWithoutEscaping(d) ==
  IF d = <<>> THEN [ret |-> <<>>, logged |-> <<>>, raised |-> FALSE]
  ELSE LET r == btoa(d)
       IN  IF r = Throws
             THEN [ret |-> d, logged |-> << EncodeFailedMsg >>, raised |-> FALSE]
             ELSE [ret |-> r, logged |-> <<>>, raised |-> FALSE]

\* ret: the value returned; logged: the console.error calls made;
\* raised: whether an exception leaves the function
encodeForTransmission(d) ==
  IF d = <<>> THEN [ret |-> <<>>, logged |-> <<>>, raised |-> FALSE]
  ELSE LET r == EncodeTransform(d)
       IN  IF r = Throws
             THEN [ret |-> d, logged |-> << EncodeFailedMsg >>, raised |-> FALSE]
             ELSE [ret |-> r, logged |-> <<>>, raised |-> FALSE]

decodeFromTransmission(e) ==
  IF e = <<>> THEN [ret |-> <<>>, logged |-> <<>>, raised |-> FALSE]
  ELSE LET r == DecodeTransform(e)
       IN  IF r = Throws
             THEN [ret |-> e, logged |-> << DecodeFailedMsg >>, raised |-> FALSE]
             ELSE [ret |-> r, logged |-> <<>>, raised |-> FALSE]

\* \d of a JavaScript regular expression: the ASCII digits only
IsDigit(c) == c >= 48 /\ c <= 57

cleanSSN(s) ==
  IF s = <<>> THEN <<>> ELSE SelectSeq(s, IsDigit)

\* /^(\d)\1{8}$/.test(cleaned)
IsRepeatedDigit(cleaned) ==
  /\ Len(cleaned) = 9
  /\ IsDigit(cleaned[1])
  /\ \A i \in 2..9 : cleaned[i] = cleaned[1]

\* the error property is absent from the returned object
NoError == "<absent>"

\* mutant: the length is checked on the raw input instead of the cleaned one
EncodeSSNLengthOfRaw(s) ==
  IF s = <<>> THEN [encoded |-> <<>>, error |-> "SSN is required"]
  ELSE IF Len(s) # 9
    THEN [encoded |-> <<>>, error |-> "SSN must be 9 digits"]
  ELSE IF IsRepeatedDigit(cleanSSN(s))
    THEN [encoded |-> <<>>, error |-> "Invalid SSN format"]
  ELSE [encoded |-> encodeForTransmission(cleanSSN(s)).ret, error |-> NoError]

\* mutant: only over-long input is rejected by the length check
EncodeSSNOnlyTooLong(s) ==
  IF s = <<>> THEN [encoded |-> <<>>, error |-> "SSN is required"]
  ELSE IF Len(cleanSSN(s)) > 9
    THEN [encoded |-> <<>>, error |-> "SSN must be 9 digits"]
  ELSE IF IsRepeatedDigit(cleanSSN(s))
    THEN [encoded |-> <<>>, error |-> "Invalid SSN format"]
  ELSE [encoded |-> encodeForTransmission(cleanSSN(s)).ret, error |-> NoError]

encodeSSNForTransmission(s) ==
  IF s = <<>> THEN [encoded |-> <<>>, error |-> "SSN is required"]
  ELSE IF Len(cleanSSN(s)) # 9
    THEN [encoded |-> <<>>, error |-> "SSN must be 9 digits"]
  ELSE IF IsRepeatedDigit(cleanSSN(s))
    THEN [encoded |-> <<>>, error |-> "Invalid SSN format"]
  ELSE [encoded |-> encodeForTransmission(cleanSSN(s)).ret, error |-> NoError]

(***************************************************************************)
(* Platform primitives used by signature-service.ts                        *)
(***************************************************************************)
\* a number the environment does not provide (JavaScript undefined)
NoNumber == 0 - 1

\* "unknown"
UnknownStr == << 117, 110, 107, 110, 111, 119, 110 >>
\* "undefined"
UndefinedStr == << 117, 110, 100, 101, 102, 105, 110, 101, 100 >>

\* decimal digits of a natural number
RECURSIVE NatToStr(_)
NatToStr(n) ==
  IF n < 10 THEN << 48 + n >> ELSE NatToStr(n \div 10) \o << 48 + (n % 10) >>

\* Number.prototype.toString for an integer
NumToStr(n) == IF n < 0 THEN << 45 >> \o NatToStr(0 - n) ELSE NatToStr(n)

\* ${n} in a template literal: "undefined" for a missing number
TemplateNum(n) == IF n = NoNumber THEN UndefinedStr ELSE NumToStr(n)

\* new Date().toISOString() when the clock stands clock milliseconds after
\* 2026-11-03T10:53:00.000Z (clock < 1000): "2026-11-03T10:53:00.mmmZ"
ToISOString(clock) ==
  << 50, 48, 50, 54, 45, 49, 49, 45, 48, 51, 84, 49, 48, 58, 53, 51, 58, 48, 48, 46 >>
  \o << 48 + (clock \div 100), 48 + ((clock \div 10) % 10), 48 + (clock % 10) >>
  \o << 90 >>

\* TextEncoder.encode from position k on: UTF-8, a lone surrogate is
\* replaced by U+FFFD
RECURSIVE TextEncodeFrom(_, _)
TextEncodeFrom(s, k) ==
  IF k > Len(s) THEN <<>>
  ELSE IF IsHighSurrogate(s[k]) /\ k < Len(s) /\ IsLowSurrogate(s[k + 1]) THEN
    UTF8((s[k] - 55296) * 1024 + (s[k + 1] - 56320) + 65536)
    \o TextEncodeFrom(s, k + 2)
  ELSE IF IsHighSurrogate(s[k]) \/ IsLowSurrogate(s[k]) THEN
    UTF8(65533) \o TextEncodeFrom(s, k + 1)
  ELSE UTF8(s[k]) \o TextEncodeFrom(s, k + 1)

TextEncode(s) == TextEncodeFrom(s, 1)

\* crypto.subtle.digest: the external one-way digest, abstracted as a
\* fixed-length (3 octet) polynomial digest of the octets
RECURSIVE DigestFold(_, _)
DigestFold(h, bytes) ==
  IF bytes = <<>> THEN h
  ELSE DigestFold((h * 31 + Head(bytes) + 1) % 16777216, Tail(bytes))

Digest(bytes) ==
  LET h == DigestFold(7, bytes)
  IN  << h \div 65536, (h \div 256) % 256, h % 256 >>

\* hashArray.map(b => b.toString(16).padStart(2, '0')).join('')
RECURSIVE HashHex(_)
HashHex(hashArray) ==
  IF hashArray = <<>> THEN <<>>
  ELSE << HexLower(Head(hashArray) \div 16), HexLower(Head(hashArray) % 16) >>
       \o HashHex(Tail(hashArray))

\* Array.prototype.join
RECURSIVE Join(_, _)
Join(parts, sep) ==
  IF parts = <<>> THEN <<>>
  ELSE IF Len(parts) = 1 THEN parts[1]
  ELSE parts[1] \o sep \o Join(Tail(parts), sep)

\* !x for a string-typed value: the empty string and undefined are falsy
Falsy(x) == x = <<>> \/ x = Undefined

(***************************************************************************)
(* signature-service.ts                                                    *)
(***************************************************************************)
HashFailedMsg == "[SIGNATURE] Hash failed:"

\* `${window.screen.width}x${window.screen.height}`
ScreenResolution(e) == TemplateNum(e.width) \o << 120 >> \o TemplateNum(e.height)

\* the octets hashString hands to the digest primitive
HashInput(d) == TextEncode(d)

\* the try block of hashString once the digest primitive has answered
HashStringResolved(dataBuffer) ==
  [hash |-> HashHex(Digest(dataBuffer)), logged |-> <<>>]

\* mutant: the catch block returns the empty string
HashStringCaughtEmpty == [hash |-> <<>>, logged |-> << HashFailedMsg >>]

\* the catch block of hashString
HashStringCaught == [hash |-> UnknownStr, logged |-> << HashFailedMsg >>]

\* x || fallback for a number
OrZero(n) == IF n = NoNumber \/ n = 0 THEN 0 ELSE n

\* x || 'unknown' for a string
OrUnknown(s) == IF Falsy(s) THEN UnknownStr ELSE s

generateDeviceFingerprint(e) ==
  Join(<< OrUnknown(e.language),
          OrUnknown(e.platform),
          NumToStr(e.tzOffset),
          NumToStr(OrZero(e.width) * OrZero(e.height)) >>,
       << 124 >>)

\* the object returned by captureSignatureMetadata
SignatureMetadata(ts, ua, res, tz, value, hash, fp) ==
  [timestamp |-> ts,
   ipAddress |-> <<>>,
   userAgent |-> ua,
   screenResolution |-> res,
   timezone |-> tz,
   consentGiven |-> TRUE,
   signatureValue |-> value,
   signatureHash |-> hash,
   deviceFingerprint |-> fp]

\* mutant: validation stops at the first failing check
ValidateShortCircuit(m) ==
  LET errors ==
        IF Falsy(m.timestamp) THEN << "Timestamp missing" >>
        ELSE IF Falsy(m.userAgent) THEN << "User agent missing" >>
        ELSE IF Falsy(m.signatureValue) \/ Len(m.signatureValue) < 2
          THEN << "Signature value invalid" >>
        ELSE IF ~m.consentGiven THEN << "Consent not given" >>
        ELSE IF Falsy(m.signatureHash) THEN << "Signature hash missing" >>
        ELSE <<>>
  IN  [valid |-> Len(errors) = 0, errors |-> errors]

\* mutant: a signature value needs more than 2 characters
ValidateMinLengthOffByOne(m) ==
  LET e1 == IF Falsy(m.timestamp) THEN << "Timestamp missing" >> ELSE <<>>
      e2 == IF Falsy(m.userAgent) THEN e1 \o << "User agent missing" >> ELSE e1
      e3 == IF Falsy(m.signatureValue) \/ Len(m.signatureValue) <= 2
              THEN e2 \o << "Signature value invalid" >> ELSE e2
      e4 == IF ~m.consentGiven THEN e3 \o << "Consent not given" >> ELSE e3
      e5 == IF Falsy(m.signatureHash)
              THEN e4 \o << "Signature hash missing" >> ELSE e4
  IN  [valid |-> Len(e5) = 0, errors |-> e5]

validateSignatureMetadata(m) ==
  LET e1 == IF Falsy(m.timestamp) THEN << "Timestamp missing" >> ELSE <<>>
      e2 == IF Falsy(m.userAgent) THEN e1 \o << "User agent missing" >> ELSE e1
      e3 == IF Falsy(m.signatureValue) \/ Len(m.signatureValue) < 2
              THEN e2 \o << "Signature value invalid" >> ELSE e2
      e4 == IF ~m.consentGiven THEN e3 \o << "Consent not given" >> ELSE e3
      e5 == IF Falsy(m.signatureHash)
              THEN e4 \o << "Signature hash missing" >> ELSE e4
  IN  [valid |-> Len(e5) = 0, errors |-> e5]

(***************************************************************************)
(* Inputs                                                                  *)
(***************************************************************************)
\* 'a', '%', U+00E9, U+20AC, and the surrogate pair of U+1F600
UnicodeAlphabet == {97, 37, 233, 8364, 55357, 56832}
\* 'J', 'Q', 'T', 'x', '=', '!'
Base64Alphabet == {74, 81, 84, 120, 61, 33}
\* '1', '2', '-'
SsnAlphabet == {49, 50, 45}

CodecInputs == Strs(UnicodeAlphabet, MaxLen) \cup Strs(Base64Alphabet, MaxB64Len)

\* "123-45-6789", "12345", "000000000", "123456789", "123 45 6789",
\* and "12345678" followed by U+0669 (ARABIC-INDIC DIGIT NINE)
SsnExamples ==
  { << 49, 50, 51, 45, 52, 53, 45, 54, 55, 56, 57 >>,
    << 49, 50, 51, 52, 53 >>,
    << 48, 48, 48, 48, 48, 48, 48, 48, 48 >>,
    << 49, 50, 51, 52, 53, 54, 55, 56, 57 >>,
    << 49, 50, 51, 32, 52, 53, 32, 54, 55, 56, 57 >>,
    << 49, 50, 51, 52, 53, 54, 55, 56, 1641 >> }

SsnInputs == Strs(SsnAlphabet, MaxSsnLen) \cup SsnExamples

\* longest the clock advances, in milliseconds, during one capture
MaxClock == 2

\* the environment with every observation present
\* "Mozilla/5.0", 1920x1080, "America/New_York", "en-US", "Linux x86_64", 300
NormalEnv ==
  [userAgent |-> << 77, 111, 122, 105, 108, 108, 97, 47, 53, 46, 48 >>,
   width |-> 1920,
   height |-> 1080,
   timeZone |-> << 65, 109, 101, 114, 105, 99, 97, 47, 78, 101, 119, 95, 89, 111, 114, 107 >>,
   language |-> << 101, 110, 45, 85, 83 >>,
   platform |-> << 76, 105, 110, 117, 120, 32, 120, 56, 54, 95, 54, 52 >>,
   tzOffset |-> 300]

\* every environment in which some observations are not provided
Envs ==
  { [userAgent |-> ua, width |-> scr[1], height |-> scr[2], timeZone |-> tz,
     language |-> lang, platform |-> plat, tzOffset |-> NormalEnv.tzOffset] :
      ua \in {NormalEnv.userAgent, Undefined},
      scr \in {<< NormalEnv.width, NormalEnv.height >>, << NoNumber, NoNumber >>},
      tz \in {NormalEnv.timeZone, Undefined},
      lang \in {NormalEnv.language, Undefined},
      plat \in {NormalEnv.platform, Undefined} }

\* the display the window is moved to while capture is suspended: 1280x720
OtherScreen == << 1280, 720 >>
\* the timezone the system is switched to: "Europe/Paris", offset -60
OtherTimeZone ==
  [timeZone |-> << 69, 117, 114, 111, 112, 101, 47, 80, 97, 114, 105, 115 >>,
   tzOffset |-> 0 - 60]

\* "Jane Doe", "Jo", "Jo2", "J", "", "J" + lone high surrogate, "J" + U+FFFD
SignatureValues ==
  { << 74, 97, 110, 101, 32, 68, 111, 101 >>,
    << 74, 111 >>,
    << 74, 111, 50 >>,
    << 74 >>,
    <<>>,
    << 74, 55357 >>,
    << 74, 65533 >> }

\* the timestamps an altered record may carry: any instant of the window,
\* and the same with its first character removed
AlteredTimestamps ==
  { ToISOString(c) : c \in 0..MaxClock } \cup { Tail(ToISOString(c)) : c \in 0..MaxClock }

\* records handed to validateSignatureMetadata by a caller
MetadataInputs ==
  { [timestamp |-> ts, ipAddress |-> <<>>, userAgent |-> ua,
     screenResolution |-> ScreenResolution(NormalEnv),
     timezone |-> NormalEnv.timeZone, consentGiven |-> consent,
     signatureValue |-> value, signatureHash |-> hash,
     deviceFingerprint |-> generateDeviceFingerprint(NormalEnv)] :
      ts \in {ToISOString(0), <<>>, Undefined},
      ua \in {NormalEnv.userAgent, <<>>, Undefined},
      value \in SignatureValues \cup {Undefined},
      consent \in BOOLEAN,
      hash \in {HashHex(Digest(<< 74 >>)), UnknownStr, <<>>, Undefined} }

(***************************************************************************)
(* State                                                                   *)
(***************************************************************************)
VARIABLES
  cpc,        \* codec caller: "idle", "start", "encoded", "roundtrip", "decoded"
  data,       \* the string the caller holds
  encoded,    \* what encodeForTransmission returned
  decoded,    \* what decodeFromTransmission returned
  console,    \* the console.error calls made so far
  raised,     \* whether a codec call raised to the caller
  spc,        \* SSN caller: "idle", "start", "done"
  ssn,        \* the raw SSN typed by the user
  ssnResult   \* what encodeSSNForTransmission returned

VARIABLES
  sigpc,            \* "idle", "start", "suspended", "returned", "received", "validated"
  env,              \* the ambient environment (navigator, screen, Intl, timezone)
  cryptoAvailable,  \* whether crypto.subtle exists (secure context)
  clock,            \* milliseconds elapsed on the system clock
  signatureValue,   \* argument of captureSignatureMetadata
  timestamp,        \* local of captureSignatureMetadata
  userAgent,        \* local of captureSignatureMetadata
  screenResolution, \* local of captureSignatureMetadata
  timezone,         \* local of captureSignatureMetadata
  startEnv,         \* history: the environment when timestamp was read
  startClock,       \* history: the clock when timestamp was read
  digest,           \* the digest request: "none", "unavailable", "pending", "resolved", "rejected"
  dataBuffer,       \* the octets handed to the digest primitive
  signatureHash,    \* what hashString resolved to (Undefined while pending)
  digestCalls,      \* history: number of requests made to the digest primitive
  suspensions,      \* history: number of times capture suspended
  record,           \* the record captureSignatureMetadata returned
  stored,           \* the record as the caller holds it (possibly altered)
  validation        \* what validateSignatureMetadata returned

codecVars == << cpc, data, encoded, decoded, raised >>
ssnVars == << spc, ssn, ssnResult >>
captureLocals ==
  << signatureValue, timestamp, userAgent, screenResolution, timezone, startEnv,
     startClock >>
digestVars == << digest, dataBuffer, signatureHash, digestCalls >>
sigVars ==
  << sigpc, env, cryptoAvailable, clock, captureLocals, digestVars, suspensions,
     record, stored, validation >>
vars == << codecVars, console, ssnVars, sigVars >>

NoResult == [encoded |-> <<>>, error |-> "<not called>"]
NoRecord == [timestamp |-> Undefined]
NoValidation == [valid |-> FALSE, errors |-> << "<not called>" >>]

CodecIdle ==
  /\ cpc = "idle"
  /\ data = <<>>
  /\ encoded = <<>>
  /\ decoded = <<>>
  /\ raised = FALSE

SsnIdle ==
  /\ spc = "idle"
  /\ ssn = <<>>
  /\ ssnResult = NoResult

\* no capture in progress: locals unset, no digest requested, nothing returned
CaptureNotStarted ==
  /\ signatureValue = Undefined
  /\ timestamp = Undefined
  /\ userAgent = Undefined
  /\ screenResolution = Undefined
  /\ timezone = Undefined
  /\ startEnv = NormalEnv
  /\ startClock = 0
  /\ digest = "none"
  /\ dataBuffer = <<>>
  /\ signatureHash = Undefined
  /\ digestCalls = 0
  /\ suspensions = 0
  /\ record = NoRecord
  /\ validation = NoValidation

SigIdle ==
  /\ sigpc = "idle"
  /\ env = NormalEnv
  /\ cryptoAvailable = TRUE
  /\ clock = 0
  /\ stored = NoRecord
  /\ CaptureNotStarted

(***************************************************************************)
(* SpecCodec: a caller encodes a value and decodes the result, or decodes  *)
(* a received value.                                                       *)
(***************************************************************************)
InitCodec ==
  /\ cpc = "start"
  /\ data \in CodecInputs
  /\ encoded = <<>>
  /\ decoded = <<>>
  /\ console = <<>>
  /\ raised = FALSE
  /\ SsnIdle
  /\ SigIdle

CallEncode ==
  /\ cpc = "start"
  /\ LET r == encodeForTransmission(data)
     IN  /\ encoded' = r.ret
         /\ console' = console \o r.logged
         /\ raised' = r.raised
  /\ cpc' = "encoded"
  /\ UNCHANGED << data, decoded, ssnVars, sigVars >>

CallDecodeOfEncoded ==
  /\ cpc = "encoded"
  /\ ~raised
  /\ LET r == decodeFromTransmission(encoded)
     IN  /\ decoded' = r.ret
         /\ console' = console \o r.logged
         /\ raised' = r.raised
  /\ cpc' = "roundtrip"
  /\ UNCHANGED << data, encoded, ssnVars, sigVars >>

CallDecode ==
  /\ cpc = "start"
  /\ LET r == decodeFromTransmission(data)
     IN  /\ decoded' = r.ret
         /\ console' = console \o r.logged
         /\ raised' = r.raised
  /\ cpc' = "decoded"
  /\ UNCHANGED << data, encoded, ssnVars, sigVars >>

NextCodec == CallEncode \/ CallDecodeOfEncoded \/ CallDecode

SpecCodec == InitCodec /\ [][NextCodec]_vars

(***************************************************************************)
(* SpecSSN: a caller prepares one raw SSN for transmission.                *)
(***************************************************************************)
InitSSN ==
  /\ spc = "start"
  /\ ssn \in SsnInputs
  /\ ssnResult = NoResult
  /\ console = <<>>
  /\ CodecIdle
  /\ SigIdle

CallEncodeSSN ==
  /\ spc = "start"
  /\ ssnResult' = encodeSSNForTransmission(ssn)
  /\ console' = IF encodeSSNForTransmission(ssn).error = NoError
                   THEN console \o encodeForTransmission(cleanSSN(ssn)).logged
                   ELSE console
  /\ spc' = "done"
  /\ UNCHANGED << ssn, codecVars, sigVars >>

NextSSN == CallEncodeSSN

SpecSSN == InitSSN /\ [][NextSSN]_vars

(***************************************************************************)
(* SpecSig: one signature action.  captureSignatureMetadata reads the      *)
(* clock and the environment, requests the digest and suspends; while it   *)
(* is suspended the clock advances and the environment may change; when    *)
(* the digest has answered it resumes, computes the device fingerprint     *)
(* and returns the record, which the caller validates.                     *)
(***************************************************************************)
InitSig ==
  /\ sigpc = "start"
  /\ env \in Envs
  /\ cryptoAvailable \in BOOLEAN
  /\ clock = 0
  /\ stored = NoRecord
  /\ CaptureNotStarted
  /\ console = <<>>
  /\ CodecIdle
  /\ SsnIdle

\* lines 27-38: the synchronous part of captureSignatureMetadata, up to the
\* await, with the synchronous part of hashString
CaptureStart(v) ==
  /\ sigpc = "start"
  /\ signatureValue' = v
  /\ timestamp' = ToISOString(clock)
  /\ userAgent' = env.userAgent
  /\ screenResolution' = ScreenResolution(env)
  /\ timezone' = env.timeZone
  /\ startEnv' = env
  /\ startClock' = clock
  /\ IF cryptoAvailable
       THEN /\ digest' = "pending"
            /\ dataBuffer' = HashInput(v \o ToISOString(clock))
            /\ digestCalls' = digestCalls + 1
            /\ signatureHash' = Undefined
            /\ console' = console
       ELSE /\ digest' = "unavailable"
            /\ dataBuffer' = HashInput(v \o ToISOString(clock))
            /\ digestCalls' = digestCalls
            /\ signatureHash' = HashStringCaught.hash
            /\ console' = console \o HashStringCaught.logged
  /\ suspensions' = suspensions + 1
  /\ sigpc' = "suspended"
  /\ UNCHANGED << env, cryptoAvailable, clock, record, stored, validation,
                  codecVars, ssnVars >>

\* the digest primitive answers with the digest octets
DigestResolves ==
  /\ sigpc = "suspended"
  /\ digest = "pending"
  /\ digest' = "resolved"
  /\ signatureHash' = HashStringResolved(dataBuffer).hash
  /\ console' = console \o HashStringResolved(dataBuffer).logged
  /\ UNCHANGED << sigpc, env, cryptoAvailable, clock, captureLocals, dataBuffer,
                  digestCalls, suspensions, record, stored, validation,
                  codecVars, ssnVars >>

\* the digest primitive fails
DigestRejects ==
  /\ sigpc = "suspended"
  /\ digest = "pending"
  /\ digest' = "rejected"
  /\ signatureHash' = HashStringCaught.hash
  /\ console' = console \o HashStringCaught.logged
  /\ UNCHANGED << sigpc, env, cryptoAvailable, clock, captureLocals, dataBuffer,
                  digestCalls, suspensions, record, stored, validation,
                  codecVars, ssnVars >>

\* lines 40-53: capture resumes with the hash, computes the fingerprint from
\* the environment as it is now, and returns the record
CaptureResume ==
  /\ sigpc = "suspended"
  /\ digest \in {"unavailable", "resolved", "rejected"}
  /\ record' = SignatureMetadata(timestamp, userAgent, screenResolution, timezone,
                                 signatureValue, signatureHash,
                                 generateDeviceFingerprint(env))
  /\ stored' = record'
  /\ sigpc' = "returned"
  /\ UNCHANGED << env, cryptoAvailable, clock, captureLocals, digestVars,
                  suspensions, validation, console, codecVars, ssnVars >>

\* the system clock advances before capture is called and while it is suspended
Tick ==
  /\ sigpc \in {"start", "suspended"}
  /\ clock < MaxClock
  /\ clock' = clock + 1
  /\ UNCHANGED << sigpc, env, cryptoAvailable, captureLocals, digestVars,
                  suspensions, record, stored, validation, console,
                  codecVars, ssnVars >>

\* the window moves to another display while capture is suspended
ScreenChange ==
  /\ sigpc = "suspended"
  /\ env.width # NoNumber
  /\ << env.width, env.height >> # OtherScreen
  /\ env' = [env EXCEPT !.width = OtherScreen[1], !.height = OtherScreen[2]]
  /\ UNCHANGED << sigpc, cryptoAvailable, clock, captureLocals, digestVars,
                  suspensions, record, stored, validation, console,
                  codecVars, ssnVars >>

\* the system timezone changes while capture is suspended
TimeZoneChange ==
  /\ sigpc = "suspended"
  /\ env.tzOffset # OtherTimeZone.tzOffset
  /\ env' = [env EXCEPT !.tzOffset = OtherTimeZone.tzOffset,
                        !.timeZone = IF @ = Undefined THEN @ ELSE OtherTimeZone.timeZone]
  /\ UNCHANGED << sigpc, cryptoAvailable, clock, captureLocals, digestVars,
                  suspensions, record, stored, validation, console,
                  codecVars, ssnVars >>

\* the caller validates the record it holds
Validate ==
  /\ sigpc \in {"returned", "received"}
  /\ validation' = validateSignatureMetadata(stored)
  /\ sigpc' = "validated"
  /\ UNCHANGED << env, cryptoAvailable, clock, captureLocals, digestVars,
                  suspensions, record, stored, console, codecVars, ssnVars >>

NextSig ==
  \/ \E v \in SignatureValues : CaptureStart(v)
  \/ DigestResolves
  \/ DigestRejects
  \/ CaptureResume
  \/ Tick
  \/ ScreenChange
  \/ TimeZoneChange
  \/ Validate

SpecSig == InitSig /\ [][NextSig]_vars

\* the event loop runs the continuation of a settled await
FairSig == SpecSig /\ WF_vars(CaptureResume)

(***************************************************************************)
(* SpecTamper: as SpecSig in the normal environment; once the record is    *)
(* returned, its signatureValue and timestamp may be altered.              *)
(***************************************************************************)
InitTamper ==
  /\ InitSig
  /\ env = NormalEnv

Tamper ==
  /\ sigpc = "returned"
  /\ stored = record
  /\ \E v \in SignatureValues, ts \in AlteredTimestamps :
       /\ << v, ts >> # << record.signatureValue, record.timestamp >>
       /\ stored' = [record EXCEPT !.signatureValue = v, !.timestamp = ts]
  /\ UNCHANGED << sigpc, env, cryptoAvailable, clock, captureLocals, digestVars,
                  suspensions, record, validation, console, codecVars, ssnVars >>

NextTamper == NextSig \/ Tamper

SpecTamper == InitTamper /\ [][NextTamper]_vars

(***************************************************************************)
(* SpecValidate: a caller validates a record it received.                  *)
(***************************************************************************)
InitValidate ==
  /\ sigpc = "received"
  /\ stored \in MetadataInputs
  /\ env = NormalEnv
  /\ cryptoAvailable = TRUE
  /\ clock = 0
  /\ CaptureNotStarted
  /\ console = <<>>
  /\ CodecIdle
  /\ SsnIdle

NextValidate == Validate

SpecValidate == InitValidate /\ [][NextValidate]_vars

(***************************************************************************)
(* Claims about client-encryption.ts                                       *)
(***************************************************************************)
\* no lone surrogate: every high surrogate is followed by a low one and
\* every low surrogate is preceded by a high one
WellFormed(s) ==
  \A i \in 1..Len(s) :
    /\ IsHighSurrogate(s[i]) => (i < Len(s) /\ IsLowSurrogate(s[i + 1]))
    /\ IsLowSurrogate(s[i]) => (i > 1 /\ IsHighSurrogate(s[i - 1]))

CountOf(log, msg) == Len(SelectSeq(log, LAMBDA m : m = msg))

\* C1: for every string s without a lone surrogate,
\* decodeFromTransmission(encodeForTransmission(s)) returns exactly s.
C1_RoundTrip ==
  (cpc = "roundtrip" /\ WellFormed(data)) => decoded = data

\* a round trip of a non-ASCII string that the transform really changed
C1_Witness ==
  /\ cpc = "roundtrip"
  /\ WellFormed(data)
  /\ Len(data) >= 2
  /\ \E i \in 1..Len(data) : IsHighSurrogate(data[i])
  /\ \E i \in 1..Len(data) : data[i] = 37
  /\ encoded # data
  /\ decoded = data

\* C2: encodeSSNForTransmission returns the result of the first check that
\* fires, in the order: empty input, digit count other than 9, one digit
\* repeated 9 times, otherwise the encoding of the digits with no error.
C2_SSNChecksInOrder ==
  spc = "done" =>
    LET digitPositions == { i \in 1..Len(ssn) : ssn[i] \in 48..57 }
        d == SelectSeq(ssn, LAMBDA c : c \in 48..57)
    IN  /\ Len(d) = Cardinality(digitPositions)
        /\ IF Len(ssn) = 0
             THEN ssnResult = [encoded |-> <<>>, error |-> "SSN is required"]
           ELSE IF Cardinality(digitPositions) # 9
             THEN ssnResult = [encoded |-> <<>>, error |-> "SSN must be 9 digits"]
           ELSE IF Cardinality({ ssn[i] : i \in digitPositions }) = 1
             THEN ssnResult = [encoded |-> <<>>, error |-> "Invalid SSN format"]
           ELSE /\ ssnResult.error = NoError
                /\ ssnResult.encoded = btoa(d)
                /\ atob(ssnResult.encoded) = d
        \* "123-45-6789" yields "MTIzNDU2Nzg5" and no error
        /\ ssn = << 49, 50, 51, 45, 52, 53, 45, 54, 55, 56, 57 >> =>
             ssnResult = [encoded |-> << 77, 84, 73, 122, 78, 68, 85, 50, 78, 122, 103, 53 >>,
                          error |-> NoError]
        \* "12345" yields the 9-digits error
        /\ ssn = << 49, 50, 51, 52, 53 >> =>
             ssnResult = [encoded |-> <<>>, error |-> "SSN must be 9 digits"]

\* a formatted SSN with 9 digits, not all equal, was accepted
C2_Witness ==
  /\ spc = "done"
  /\ Len(ssn) > 9
  /\ Len(cleanSSN(ssn)) = 9
  /\ ssnResult.error = NoError
  /\ ssnResult.encoded # <<>>

\* C3: the result of encodeSSNForTransmission carries an error if and only
\* if its encoded value is the empty string.
C3_ErrorIffEmptyEncoded ==
  spc = "done" => ((ssnResult.error # NoError) <=> (ssnResult.encoded = <<>>))

\* the all-valid path: a non-empty encoded value and no error
C3_Witness ==
  /\ spc = "done"
  /\ ssnResult.error = NoError
  /\ Len(ssnResult.encoded) = 12

\* C4: encodeForTransmission and decodeFromTransmission never raise; when
\* the transform fails they return their argument unchanged and log exactly
\* once; on the empty string they return the empty string and log nothing.
C4_FailOpen ==
  /\ ~raised
  /\ cpc \in {"encoded", "roundtrip"} =>
       /\ EncodeTransform(data) = Throws =>
            (encoded = data /\ CountOf(console, EncodeFailedMsg) = 1)
       /\ data = <<>> => (encoded = <<>> /\ console = <<>>)
  /\ cpc = "roundtrip" =>
       /\ DecodeTransform(encoded) = Throws =>
            (decoded = encoded /\ CountOf(console, DecodeFailedMsg) = 1)
       /\ encoded = <<>> => (decoded = <<>> /\ CountOf(console, DecodeFailedMsg) = 0)
  /\ cpc = "decoded" =>
       /\ DecodeTransform(data) = Throws =>
            (decoded = data /\ console = << DecodeFailedMsg >>)
       /\ data = <<>> => (decoded = <<>> /\ console = <<>>)

\* the forward transform failed on a lone surrogate and the value was echoed
C4_Witness ==
  /\ cpc = "encoded"
  /\ data # <<>>
  /\ encodeURIComponent(data) = Throws
  /\ encoded = data
  /\ console = << EncodeFailedMsg >>

(***************************************************************************)
(* Claims about signature-service.ts                                       *)
(***************************************************************************)
\* the digest, in hexadecimal, of a signature value followed by a timestamp
RecomputedHash(value, ts) == HashHex(Digest(TextEncode(value \o ts)))

\* the first half of C5 alone: the returned hash is the digest of the
\* returned record's own signatureValue and timestamp, read at the start
HashCoversOwnFields ==
  (record # NoRecord /\ digest = "resolved") =>
    /\ record.timestamp = ToISOString(startClock)
    /\ record.signatureHash = RecomputedHash(record.signatureValue, record.timestamp)

\* C5: when the digest succeeded, signatureHash is the hex digest of the
\* record's own signatureValue followed by its own timestamp (read once at
\* the start of capture), so a record whose signatureValue or timestamp is
\* later altered no longer matches a recomputed digest.
C5_HashDetectsAlteration ==
  (record # NoRecord /\ digest = "resolved") =>
    /\ record.timestamp = ToISOString(startClock)
    /\ record.signatureHash = RecomputedHash(record.signatureValue, record.timestamp)
    /\ (stored.signatureValue # record.signatureValue
          \/ stored.timestamp # record.timestamp) =>
         RecomputedHash(stored.signatureValue, stored.timestamp) # stored.signatureHash

\* C6: when the digest primitive is unavailable or fails, capture completes
\* after its single suspension without asking for the digest again, and
\* returns a record with signatureHash "unknown", consentGiven true and
\* ipAddress ""; one error is logged.
C6_DigestFailureDegrades ==
  /\ [](digest \in {"unavailable", "rejected"} =>
          /\ digestCalls <= 1
          /\ suspensions = 1
          /\ console = << HashFailedMsg >>
          /\ record # NoRecord =>
               /\ record.signatureHash = UnknownStr
               /\ record.consentGiven = TRUE
               /\ record.ipAddress = <<>>)
  /\ ((sigpc = "suspended" /\ digest \in {"unavailable", "rejected"})
        ~> (record # NoRecord /\ suspensions = 1))

\* a record was returned after the digest primitive rejected
C6_Witness ==
  /\ sigpc = "returned"
  /\ digest = "rejected"
  /\ digestCalls = 1
  /\ record.signatureHash = UnknownStr

\* C7: validateSignatureMetadata collects one entry per failing check, in
\* the order timestamp, user agent, signature value, consent, hash; valid is
\* true exactly when no check fails; a record without consent is invalid
\* with the consent error.
C7_ValidateCollectsAll ==
  sigpc = "validated" =>
    LET m == stored
        failing == << Falsy(m.timestamp),
                      Falsy(m.userAgent),
                      Falsy(m.signatureValue) \/ Len(m.signatureValue) < 2,
                      m.consentGiven # TRUE,
                      Falsy(m.signatureHash) >>
        msgs == << "Timestamp missing", "User agent missing",
                   "Signature value invalid", "Consent not given",
                   "Signature hash missing" >>
        errs == validation.errors
        IndexOf(e) == CHOOSE i \in 1..5 : msgs[i] = e
    IN  /\ \A k \in 1..Len(errs) : \E i \in 1..5 : msgs[i] = errs[k]
        /\ \A i \in 1..5 : failing[i] <=> (\E k \in 1..Len(errs) : errs[k] = msgs[i])
        /\ Len(errs) = Cardinality({ i \in 1..5 : failing[i] })
        /\ \A k1, k2 \in 1..Len(errs) : k1 < k2 => IndexOf(errs[k1]) < IndexOf(errs[k2])
        /\ validation.valid <=> (errs = <<>>)
        /\ m.consentGiven = FALSE =>
             /\ validation.valid = FALSE
             /\ \E k \in 1..Len(errs) : errs[k] = "Consent not given"

\* a record failing the first, the fourth and the fifth check
C7_Witness ==
  /\ sigpc = "validated"
  /\ record = NoRecord
  /\ stored.consentGiven = FALSE
  /\ validation.errors =
       << "Timestamp missing", "Consent not given", "Signature hash missing" >>

\* every observation is provided by the environment
ProvidesAll(e) ==
  /\ ~Falsy(e.userAgent)
  /\ e.width # NoNumber
  /\ e.height # NoNumber
  /\ ~Falsy(e.timeZone)
  /\ ~Falsy(e.language)
  /\ ~Falsy(e.platform)

\* C8: with the environment and the digest behaving normally, validating
\* the record captured for a signature value of at least 2 characters
\* returns valid = true and no errors.
C8_CapturedRecordIsValid ==
  ( /\ sigpc = "validated"
    /\ record # NoRecord
    /\ ProvidesAll(startEnv)
    /\ digest = "resolved"
    /\ Len(signatureValue) >= 2 ) =>
      /\ stored = record
      /\ validation = [valid |-> TRUE, errors |-> <<>>]

\* validate(capture("Jane Doe")) in the normal environment
C8_Witness ==
  /\ sigpc = "validated"
  /\ startEnv = NormalEnv
  /\ digest = "resolved"
  /\ record.signatureValue = << 74, 97, 110, 101, 32, 68, 111, 101 >>
  /\ validation.valid = TRUE

\* C9: for each observation the environment does not provide (client
\* software identifier, display width and height, timezone name, locale,
\* platform), the returned record carries "unknown" (strings) or 0 (numbers)
\* in the corresponding field.
C9_AbsentObservationsDefaulted ==
  record # NoRecord =>
    /\ Falsy(startEnv.userAgent) => record.userAgent = UnknownStr
    /\ Falsy(startEnv.timeZone) => record.timezone = UnknownStr
    /\ startEnv.width = NoNumber => record.screenResolution = << 48, 120, 48 >>
    /\ LET locale == IF Falsy(env.language) THEN UnknownStr ELSE env.language
           platform == IF Falsy(env.platform) THEN UnknownStr ELSE env.platform
           area == IF env.width = NoNumber \/ env.height = NoNumber
                     THEN 0 ELSE env.width * env.height
       IN  record.deviceFingerprint =
             locale \o << 124 >> \o platform \o << 124 >>
             \o NumToStr(env.tzOffset) \o << 124 >> \o NumToStr(area)

\* C10: the observations in a returned record all come from the environment
\* as it was when timestamp was read: the fingerprint's display area is the
\* width times the height of screenResolution, and its timezone offset is
\* the one in force at that instant.
C10_SingleSnapshot ==
  record # NoRecord =>
    /\ record.screenResolution = ScreenResolution(startEnv)
    /\ record.userAgent = startEnv.userAgent
    /\ record.timezone = startEnv.timeZone
    /\ record.deviceFingerprint =
         Join(<< OrUnknown(startEnv.language),
                 OrUnknown(startEnv.platform),
                 NumToStr(startEnv.tzOffset),
                 NumToStr(OrZero(startEnv.width) * OrZero(startEnv.height)) >>,
              << 124 >>)

=============================================================================
